---- MODULE Spec2Model ----
(***************************************************************************)
(* Model of the logsumexp crate (src/src/lib.rs): the pairwise             *)
(* LogAddExp::ln_add_exp and the one-pass streaming LogSumExp::ln_sum_exp, *)
(* the latter in its two implementations (iterator of owned values,        *)
(* iterator of references).                                                *)
(*                                                                         *)
(* Floating-point values are modelled in exact arithmetic, symbolically.   *)
(*  - a "log-scale" value (an input, m_old, a difference, a result) is     *)
(*    NaN, +infinity, -infinity or the real number  m + ln(p)  where m is  *)
(*    an integer and p a polynomial in e with natural coefficients whose   *)
(*    highest exponent is 0; the integer x is x + ln(1).  As e is          *)
(*    transcendental this representation is unique.                        *)
(*  - a "linear-scale" value (sum, a result of exp) is NaN, +infinity or a *)
(*    polynomial in e with natural coefficients, exponents in Exps.        *)
(* Finite inputs are the integers -MaxAbs..MaxAbs.  Rounding, underflow    *)
(* and the sign of zero are not modelled; equality of finite values is     *)
(* IEEE ==.                                                                *)
(***************************************************************************)
EXTENDS Integers, Sequences, FiniteSets

VARIABLES v, own, ref, add

vars == <<v, own, ref, add>>

(* ------------------------------ bounds --------------------------------- *)
MaxLen == 3
MaxAbs == 1

W == 2 * MaxAbs
Exps == (0 - W)..W

(* ------------------------ polynomials in e ----------------------------- *)
ZeroP == [e \in Exps |-> 0]
Mono(j) == [e \in Exps |-> IF e = j THEN 1 ELSE 0]
OneP == Mono(0)
PAdd(P, Q) == [e \in Exps |-> P[e] + Q[e]]

RECURSIVE Conv(_, _, _, _)
Conv(P, Q, e, i) ==
  IF i > W THEN 0
  ELSE (IF (e - i) \in Exps THEN P[i] * Q[e - i] ELSE 0) + Conv(P, Q, e, i + 1)

PMul(P, Q) == [e \in Exps |-> Conv(P, Q, e, 0 - W)]

RECURSIVE PTotalFrom(_, _)
PTotalFrom(P, i) == IF i > W THEN 0 ELSE P[i] + PTotalFrom(P, i + 1)
PTotal(P) == PTotalFrom(P, 0 - W)

Top(P) == CHOOSE t \in Exps : P[t] # 0 /\ \A u \in Exps : u > t => P[u] = 0
Shift(P, t) == [e \in Exps |-> IF (e + t) \in Exps THEN P[e + t] ELSE 0]

(* ------------------------ log-scale values ----------------------------- *)
NaN == [k |-> "nan", m |-> 0, p |-> ZeroP]
INFINITY == [k |-> "pinf", m |-> 0, p |-> ZeroP]
NEG_INFINITY == [k |-> "ninf", m |-> 0, p |-> ZeroP]
Fin(x) == [k |-> "fin", m |-> x, p |-> OneP]
NoValue == [k |-> "none", m |-> 0, p |-> ZeroP]

Scalars == {NaN, INFINITY, NEG_INFINITY} \cup {Fin(x) : x \in (0 - MaxAbs)..MaxAbs}

is_nan(x) == x.k = "nan"
IsFinite(x) == x.k = "fin"

\* IEEE ==: false as soon as an operand is NaN
FEq(x, y) == ~is_nan(x) /\ ~is_nan(y) /\ x = y

\* IEEE <: false as soon as an operand is NaN
FLt(x, y) ==
  /\ ~is_nan(x) /\ ~is_nan(y)
  /\ \/ x.k = "ninf" /\ y.k # "ninf"
     \/ x.k = "fin" /\ y.k = "pinf"
     \/ x.k = "fin" /\ y.k = "fin" /\ x.m < y.m

\* IEEE +
FAdd(x, y) ==
  IF is_nan(x) \/ is_nan(y) THEN NaN
  ELSE IF x.k = "pinf" THEN (IF y.k = "ninf" THEN NaN ELSE INFINITY)
  ELSE IF x.k = "ninf" THEN (IF y.k = "pinf" THEN NaN ELSE NEG_INFINITY)
  ELSE IF y.k = "pinf" THEN INFINITY
  ELSE IF y.k = "ninf" THEN NEG_INFINITY
  ELSE [k |-> "fin", m |-> x.m + y.m, p |-> PMul(x.p, y.p)]

\* IEEE -, the subtrahend being an input or m_old (an integer when finite)
FSub(x, y) ==
  IF is_nan(x) \/ is_nan(y) THEN NaN
  ELSE IF x.k = "pinf" THEN (IF y.k = "pinf" THEN NaN ELSE INFINITY)
  ELSE IF x.k = "ninf" THEN (IF y.k = "ninf" THEN NaN ELSE NEG_INFINITY)
  ELSE IF y.k = "pinf" THEN NEG_INFINITY
  ELSE IF y.k = "ninf" THEN INFINITY
  ELSE [k |-> "fin", m |-> x.m - y.m, p |-> x.p]

\* f64::max / f32::max: a NaN operand is ignored
FMax(x, y) ==
  IF is_nan(x) THEN y
  ELSE IF is_nan(y) THEN x
  ELSE IF FLt(x, y) THEN y ELSE x

(* ----------------------- linear-scale values --------------------------- *)
LNaN == [k |-> "nan", p |-> ZeroP]
LInf == [k |-> "pinf", p |-> ZeroP]
LFin(P) == [k |-> "fin", p |-> P]
LZero == LFin(ZeroP)
LOne == LFin(OneP)

\* exp of an integer, of an infinity, of NaN
Exp(x) ==
  IF is_nan(x) THEN LNaN
  ELSE IF x.k = "pinf" THEN LInf
  ELSE IF x.k = "ninf" THEN LZero
  ELSE LFin(Mono(x.m))

\* variant of Ln with a domain error at 0: ln(0) is NaN (sensitivity of C4)
Ln_ZeroIsNaN(s) ==
  IF s.k = "nan" THEN NaN
  ELSE IF s.k = "pinf" THEN INFINITY
  ELSE IF s.p = ZeroP THEN NaN
  ELSE [k |-> "fin", m |-> Top(s.p), p |-> Shift(s.p, Top(s.p))]

\* ln of a non-negative value: ln(0) = -infinity
Ln(s) ==
  IF s.k = "nan" THEN NaN
  ELSE IF s.k = "pinf" THEN INFINITY
  ELSE IF s.p = ZeroP THEN NEG_INFINITY
  ELSE [k |-> "fin", m |-> Top(s.p), p |-> Shift(s.p, Top(s.p))]

\* IEEE * on non-negative values: 0 * infinity is NaN
LMul(s, t) ==
  IF s.k = "nan" \/ t.k = "nan" THEN LNaN
  ELSE IF s.k = "pinf" THEN (IF t = LZero THEN LNaN ELSE LInf)
  ELSE IF t.k = "pinf" THEN (IF s = LZero THEN LNaN ELSE LInf)
  ELSE LFin(PMul(s.p, t.p))

\* IEEE + on non-negative values
LAdd(s, t) ==
  IF s.k = "nan" \/ t.k = "nan" THEN LNaN
  ELSE IF s.k = "pinf" \/ t.k = "pinf" THEN LInf
  ELSE LFin(PAdd(s.p, t.p))

\* lnexp::LnExp::ln_1p_exp: log(1 + exp(x))
ln_1p_exp(x) == Ln(LAdd(LOne, Exp(x)))

(* --------------------------- ln_add_exp -------------------------------- *)
\* variant of MaxDiff without the equality branch: equal operands take the
\* last branch, and inf - inf is NaN (sensitivity of C6)
MaxDiff_NoEqBranch(self, rhs) ==
  IF FLt(self, rhs) THEN [max |-> rhs, diff |-> FSub(self, rhs)]
  ELSE [max |-> self, diff |-> FSub(rhs, self)]

\* variant of MaxDiff with the operands of the first difference exchanged
\* (sensitivity of C7)
MaxDiff_SignSlip(self, rhs) ==
  IF FLt(self, rhs) THEN [max |-> rhs, diff |-> FSub(rhs, self)]
  ELSE IF FEq(self, rhs) THEN [max |-> rhs, diff |-> Fin(0)]
  ELSE [max |-> self, diff |-> FSub(rhs, self)]

\* the (max, diff) pair of lines 45-53
MaxDiff(self, rhs) ==
  IF FLt(self, rhs) THEN [max |-> rhs, diff |-> FSub(self, rhs)]
  ELSE IF FEq(self, rhs) THEN [max |-> rhs, diff |-> Fin(0)]
  ELSE [max |-> self, diff |-> FSub(rhs, self)]

ln_add_exp(self, rhs) ==
  LET md == MaxDiff(self, rhs) IN FAdd(md.max, ln_1p_exp(md.diff))

NoCall == [called |-> FALSE, max |-> NoValue, diff |-> NoValue, out |-> NoValue]
Call(self, rhs) ==
  [called |-> TRUE, max |-> MaxDiff(self, rhs).max,
   diff |-> MaxDiff(self, rhs).diff, out |-> ln_add_exp(self, rhs)]

(* --------------------------- ln_sum_exp -------------------------------- *)
\* pc: "acc" in the outer while loop, "scan" in the inner one, "done" after
\* a return; line: the source line of the return taken (0 before it);
\* calls: the number of calls of next(); pulled: the items next() returned;
\* hist: see Observe.
Start(it) ==
  [pc |-> "acc", m_old |-> NEG_INFINITY, sum |-> LZero, iter |-> it,
   ret |-> NoValue, line |-> 0, calls |-> 0, pulled |-> <<>>, hist |-> <<>>]

\* history of the accumulators: the (m_old, sum) pair after each call of next()
Observe(s) == [s EXCEPT !.hist = Append(@, <<s.m_old, s.sum>>)]

\* the step of the iterator: self.next() returned Some(Head(s.iter))
Pull(s) ==
  [s EXCEPT !.iter = Tail(@), !.pulled = Append(@, Head(s.iter)), !.calls = @ + 1]

Return(s, x, l) == [s EXCEPT !.pc = "done", !.ret = x, !.line = l, !.calls = @ + 1]
ReturnAt(s, x, l) == [s EXCEPT !.pc = "done", !.ret = x, !.line = l]

\* variants of OuterIter, each with one plausible slip
\* without the +infinity branch: +infinity is accumulated (sensitivity of C2)
OuterIter_NoInfBranch(s) ==
  IF s.iter = <<>> THEN Return(s, FAdd(s.m_old, Ln(s.sum)), 137)
  ELSE LET v_i == Head(s.iter)
           t == Pull(s)
       IN IF FEq(v_i, NEG_INFINITY) THEN t
          ELSE IF is_nan(v_i) THEN ReturnAt(t, v_i, 129)
          ELSE LET m_new == FMax(s.m_old, v_i)
               IN [t EXCEPT
                     !.sum = LAdd(LMul(s.sum, Exp(FSub(s.m_old, m_new))),
                                  Exp(FSub(v_i, m_new))),
                     !.m_old = m_new]

\* without the -infinity branch: -infinity is accumulated (sensitivity of C3)
OuterIter_NoNegInfBranch(s) ==
  IF s.iter = <<>> THEN Return(s, FAdd(s.m_old, Ln(s.sum)), 137)
  ELSE LET v_i == Head(s.iter)
           t == Pull(s)
       IN IF FEq(v_i, INFINITY) THEN [t EXCEPT !.pc = "scan"]
          ELSE IF is_nan(v_i) THEN ReturnAt(t, v_i, 129)
          ELSE LET m_new == FMax(s.m_old, v_i)
               IN [t EXCEPT
                     !.sum = LAdd(LMul(s.sum, Exp(FSub(s.m_old, m_new))),
                                  Exp(FSub(v_i, m_new))),
                     !.m_old = m_new]

\* without the assignment m_old = m_new (sensitivity of C5)
OuterIter_NoMaxUpdate(s) ==
  IF s.iter = <<>> THEN Return(s, FAdd(s.m_old, Ln(s.sum)), 137)
  ELSE LET v_i == Head(s.iter)
           t == Pull(s)
       IN IF FEq(v_i, NEG_INFINITY) THEN t
          ELSE IF FEq(v_i, INFINITY) THEN [t EXCEPT !.pc = "scan"]
          ELSE IF is_nan(v_i) THEN ReturnAt(t, v_i, 129)
          ELSE LET m_new == FMax(s.m_old, v_i)
               IN [t EXCEPT
                     !.sum = LAdd(LMul(s.sum, Exp(FSub(s.m_old, m_new))),
                                  Exp(FSub(v_i, m_new)))]

\* without the rescaling of sum by exp(m_old - m_new) (sensitivity of C10)
OuterIter_NoRescale(s) ==
  IF s.iter = <<>> THEN Return(s, FAdd(s.m_old, Ln(s.sum)), 137)
  ELSE LET v_i == Head(s.iter)
           t == Pull(s)
       IN IF FEq(v_i, NEG_INFINITY) THEN t
          ELSE IF FEq(v_i, INFINITY) THEN [t EXCEPT !.pc = "scan"]
          ELSE IF is_nan(v_i) THEN ReturnAt(t, v_i, 129)
          ELSE LET m_new == FMax(s.m_old, v_i)
               IN [t EXCEPT
                     !.sum = LAdd(s.sum, Exp(FSub(v_i, m_new))),
                     !.m_old = m_new]

\* +infinity is recorded in m_old and the loop goes on to the final
\* expression instead of entering the scan (sensitivity of C11)
OuterIter_InfKeptInMax(s) ==
  IF s.iter = <<>> THEN Return(s, FAdd(s.m_old, Ln(s.sum)), 137)
  ELSE LET v_i == Head(s.iter)
           t == Pull(s)
       IN IF FEq(v_i, NEG_INFINITY) THEN t
          ELSE IF FEq(v_i, INFINITY) THEN [t EXCEPT !.m_old = INFINITY]
          ELSE IF is_nan(v_i) THEN ReturnAt(t, v_i, 129)
          ELSE LET m_new == FMax(s.m_old, v_i)
               IN [t EXCEPT
                     !.sum = LAdd(LMul(s.sum, Exp(FSub(s.m_old, m_new))),
                                  Exp(FSub(v_i, m_new))),
                     !.m_old = m_new]

\* owned values: one iteration of the outer while loop (lines 112-136), or
\* the final expression (line 137) when the iterator is exhausted
OuterIter(s) ==
  IF s.iter = <<>> THEN Return(s, FAdd(s.m_old, Ln(s.sum)), 137)
  ELSE LET v_i == Head(s.iter)
           t == Pull(s)
       IN IF FEq(v_i, NEG_INFINITY) THEN t
          ELSE IF FEq(v_i, INFINITY) THEN [t EXCEPT !.pc = "scan"]
          ELSE IF is_nan(v_i) THEN ReturnAt(t, v_i, 129)
          ELSE LET m_new == FMax(s.m_old, v_i)
               IN [t EXCEPT
                     !.sum = LAdd(LMul(s.sum, Exp(FSub(s.m_old, m_new))),
                                  Exp(FSub(v_i, m_new))),
                     !.m_old = m_new]

\* variants of InnerIter
\* without the test for NaN (sensitivity of C1)
InnerIter_NoNaNCheck(s) ==
  IF s.iter = <<>> THEN Return(s, INFINITY, 126) ELSE Pull(s)

\* the remainder is drained before NaN is returned (sensitivity of C9)
InnerIter_Drain(s) ==
  IF s.iter = <<>> THEN Return(s, INFINITY, 126)
  ELSE LET v_i == Head(s.iter)
           t == Pull(s)
       IN IF is_nan(v_i)
          THEN [ReturnAt(t, v_i, 123) EXCEPT !.iter = <<>>,
                                             !.pulled = t.pulled \o t.iter]
          ELSE t

\* owned values: one iteration of the inner while loop (lines 121-125), or
\* the return of line 126 when the iterator is exhausted
InnerIter(s) ==
  IF s.iter = <<>> THEN Return(s, INFINITY, 126)
  ELSE LET v_i == Head(s.iter)
           t == Pull(s)
       IN IF is_nan(v_i) THEN ReturnAt(t, v_i, 123) ELSE t

\* references: the items of the iterator are references into the vector
Deref(mem, r) == mem[r]

OuterIterRef(s, mem) ==
  IF s.iter = <<>> THEN Return(s, FAdd(s.m_old, Ln(s.sum)), 167)
  ELSE LET v_i == Head(s.iter)
           t == Pull(s)
       IN IF FEq(Deref(mem, v_i), NEG_INFINITY) THEN t
          ELSE IF FEq(Deref(mem, v_i), INFINITY) THEN [t EXCEPT !.pc = "scan"]
          ELSE IF is_nan(Deref(mem, v_i)) THEN ReturnAt(t, Deref(mem, v_i), 160)
          ELSE LET m_new == FMax(s.m_old, Deref(mem, v_i))
               IN [t EXCEPT
                     !.sum = LAdd(LMul(s.sum, Exp(FSub(s.m_old, m_new))),
                                  Exp(FSub(Deref(mem, v_i), m_new))),
                     !.m_old = m_new]

\* variant of InnerIterRef that returns +infinity where it finds NaN
\* (sensitivity of C8)
InnerIterRef_ReturnsInf(s, mem) ==
  IF s.iter = <<>> THEN Return(s, INFINITY, 158)
  ELSE LET v_i == Head(s.iter)
           t == Pull(s)
       IN IF is_nan(Deref(mem, v_i)) THEN ReturnAt(t, INFINITY, 155) ELSE t

InnerIterRef(s, mem) ==
  IF s.iter = <<>> THEN Return(s, INFINITY, 158)
  ELSE LET v_i == Head(s.iter)
           t == Pull(s)
       IN IF is_nan(Deref(mem, v_i)) THEN ReturnAt(t, Deref(mem, v_i), 155) ELSE t

\* v.into_iter() and v.iter()
into_iter(vec) == vec
iter(vec) == [i \in 1..Len(vec) |-> i]

\* a whole call on an iterator of owned values
RECURSIVE Run(_)
Run(s) ==
  IF s.pc = "done" THEN s
  ELSE Run(IF s.pc = "acc" THEN OuterIter(s) ELSE InnerIter(s))

ln_sum_exp(vec) == Run(Start(into_iter(vec))).ret

\* a whole call on an iterator of references into mem
RECURSIVE RunRef(_, _)
RunRef(s, mem) ==
  IF s.pc = "done" THEN s
  ELSE RunRef(IF s.pc = "acc" THEN OuterIterRef(s, mem) ELSE InnerIterRef(s, mem), mem)

ln_sum_exp_ref(vec) == RunRef(Start(iter(vec)), vec).ret

(* ------------------------- the state machine --------------------------- *)
RECURSIVE SeqsUpTo(_)
SeqsUpTo(n) ==
  IF n = 0 THEN {<<>>}
  ELSE LET S == SeqsUpTo(n - 1)
       IN S \cup {Append(q, x) : q \in {r \in S : Len(r) = n - 1}, x \in Scalars}

Idle == [a |-> NaN, b |-> NaN, ab |-> NoCall, ba |-> NoCall]

\* The two implementations are called on the same vector, one call after the
\* other as in the tests: v.iter().ln_sum_exp() borrows the vector and runs
\* first, v.into_iter().ln_sum_exp() consumes it and runs second.
Init ==
  /\ v \in SeqsUpTo(MaxLen)
  /\ own = Start(into_iter(v))
  /\ ref = Start(iter(v))
  /\ add = Idle

OwnedLoop ==
  /\ ref.pc = "done"
  /\ own.pc = "acc"
  /\ own' = Observe(OuterIter(own))
  /\ UNCHANGED <<v, ref, add>>

OwnedScan ==
  /\ ref.pc = "done"
  /\ own.pc = "scan"
  /\ own' = Observe(InnerIter(own))
  /\ UNCHANGED <<v, ref, add>>

RefLoop ==
  /\ ref.pc = "acc"
  /\ ref' = Observe(OuterIterRef(ref, v))
  /\ UNCHANGED <<v, own, add>>

RefScan ==
  /\ ref.pc = "scan"
  /\ ref' = Observe(InnerIterRef(ref, v))
  /\ UNCHANGED <<v, own, add>>

Next == OwnedLoop \/ OwnedScan \/ RefLoop \/ RefScan

Spec == Init /\ [][Next]_vars

(* ln_add_exp on every pair of operands, in both argument orders *)
InitAdd ==
  /\ v = <<>>
  /\ own = Start(into_iter(v))
  /\ ref = Start(iter(v))
  /\ \E a \in Scalars, b \in Scalars :
       add = [a |-> a, b |-> b, ab |-> NoCall, ba |-> NoCall]

CallAB ==
  /\ ~add.ab.called
  /\ add' = [add EXCEPT !.ab = Call(add.a, add.b)]
  /\ UNCHANGED <<v, own, ref>>

CallBA ==
  /\ ~add.ba.called
  /\ add' = [add EXCEPT !.ba = Call(add.b, add.a)]
  /\ UNCHANGED <<v, own, ref>>

NextAdd == CallAB \/ CallBA

SpecAdd == InitAdd /\ [][NextAdd]_vars

(* ------------------------- sanity of the model ------------------------- *)
\* the exact representation never leaves its window: m_old is an integer or
\* -infinity and sum a polynomial with exponents <= 0
Representable(s) ==
  /\ s.m_old.k \in {"ninf", "fin"}
  /\ s.m_old.k = "fin" => s.m_old.p = OneP /\ s.m_old.m \in (0 - MaxAbs)..MaxAbs
  /\ s.sum.k = "fin"
  /\ \A e \in Exps : e > 0 => s.sum.p[e] = 0

ModelOK == Representable(own) /\ Representable(ref)

(* ------------------------------ claims --------------------------------- *)
Done(s) == s.pc = "done"
HasNaN(vec) == \E i \in 1..Len(vec) : is_nan(vec[i])
HasInf(vec) == \E i \in 1..Len(vec) : vec[i] = INFINITY
HasFinite(vec) == \E i \in 1..Len(vec) : IsFinite(vec[i])

\* equality of results: IEEE ==, or both NaN
SameF(x, y) == (is_nan(x) /\ is_nan(y)) \/ FEq(x, y)

\* C1: whenever the sequence holds a NaN, at any position and whatever else
\* it holds, a finished call of ln_sum_exp (either implementation) has
\* returned NaN.
C1_NaNAnywhereGivesNaN ==
  /\ Done(own) /\ HasNaN(v) => is_nan(own.ret)
  /\ Done(ref) /\ HasNaN(v) => is_nan(ref.ret)

\* a finished call on a sequence with a finite value, then +infinity, then NaN
C1_Witness ==
  /\ Done(own) /\ Done(ref) /\ is_nan(own.ret) /\ is_nan(ref.ret)
  /\ \E i, j, l \in 1..Len(v) :
       i < j /\ j < l /\ IsFinite(v[i]) /\ v[j] = INFINITY /\ is_nan(v[l])

\* C2: whenever the sequence holds a +infinity and no NaN, a finished call of
\* ln_sum_exp (either implementation) has returned +infinity.
C2_InfWithoutNaNGivesInf ==
  /\ Done(own) /\ HasInf(v) /\ ~HasNaN(v) => own.ret = INFINITY
  /\ Done(ref) /\ HasInf(v) /\ ~HasNaN(v) => ref.ret = INFINITY

\* a finished call on a sequence with a finite value before +infinity and a
\* -infinity or a finite value after it
C2_Witness ==
  /\ Done(own) /\ Done(ref) /\ own.ret = INFINITY /\ ref.ret = INFINITY
  /\ ~HasNaN(v)
  /\ \E i, j, l \in 1..Len(v) :
       i < j /\ j < l /\ IsFinite(v[i]) /\ v[j] = INFINITY /\ v[l] # INFINITY

InsertAt(vec, i, x) == SubSeq(vec, 1, i) \o <<x>> \o SubSeq(vec, i + 1, Len(vec))

\* the last item pulled by the step from s to t, if the step pulled one
PulledNow(s, t) == Len(t.pulled) = Len(s.pulled) + 1

\* vec with every -infinity taken out: any two sequences that differ only by
\* inserted -infinity have the same one
WithoutNegInf(vec) == SelectSeq(vec, LAMBDA x : x # NEG_INFINITY)

C3_Results ==
  Done(own) /\ Done(ref) =>
    /\ \A i \in 0..Len(v) :
         /\ SameF(ln_sum_exp(InsertAt(v, i, NEG_INFINITY)), own.ret)
         /\ SameF(ln_sum_exp_ref(InsertAt(v, i, NEG_INFINITY)), ref.ret)
    /\ SameF(ln_sum_exp(WithoutNegInf(v)), own.ret)
    /\ SameF(ln_sum_exp_ref(WithoutNegInf(v)), ref.ret)

C3_Step ==
  /\ (own.pc = "acc" /\ PulledNow(own, own')
        /\ own'.pulled[Len(own'.pulled)] = NEG_INFINITY)
       => own'.m_old = own.m_old /\ own'.sum = own.sum /\ own'.pc = "acc"
  /\ (ref.pc = "acc" /\ PulledNow(ref, ref')
        /\ Deref(v, ref'.pulled[Len(ref'.pulled)]) = NEG_INFINITY)
       => ref'.m_old = ref.m_old /\ ref'.sum = ref.sum /\ ref'.pc = "acc"

\* C3: the result of a call on v is also the result of a call on v with a
\* -infinity inserted at any position, and of a call on v with all its
\* -infinity taken out (both NaN when the one is), so that sequences that
\* differ by any number of -infinity have the same result; and a step of the
\* accumulation loop that pulls -infinity changes neither m_old nor sum.
C3_NegInfInvariance == [](C3_Results) /\ [][C3_Step]_vars

\* a finished call with a finite result on a sequence that holds -infinity
\* between two finite values
C3_Witness ==
  /\ Done(own) /\ Done(ref) /\ IsFinite(own.ret)
  /\ \E i, j, l \in 1..Len(v) :
       i < j /\ j < l /\ IsFinite(v[i]) /\ v[j] = NEG_INFINITY /\ IsFinite(v[l])

\* C4: a finished call on the empty sequence has returned -infinity, by the
\* final expression m_old + ln(sum), with m_old still -infinity and sum
\* still 0, after a single call of next().
C4_EmptyGivesNegInf ==
  /\ Done(own) /\ v = <<>> =>
       /\ own.ret = NEG_INFINITY /\ own.line = 137 /\ own.calls = 1
       /\ own.m_old = NEG_INFINITY /\ own.sum = LZero
  /\ Done(ref) /\ v = <<>> =>
       /\ ref.ret = NEG_INFINITY /\ ref.line = 167 /\ ref.calls = 1
       /\ ref.m_old = NEG_INFINITY /\ ref.sum = LZero

\* both calls on the empty sequence have finished
C4_Witness == v = <<>> /\ Done(own) /\ Done(ref)

\* C5: a finished call on the one-element sequence [x] has returned x (NaN
\* when x is NaN), for x finite, +infinity, -infinity or NaN.
C5_SingletonGivesElement ==
  /\ Done(own) /\ Len(v) = 1 => SameF(own.ret, v[1])
  /\ Done(ref) /\ Len(v) = 1 => SameF(ref.ret, v[1])

\* both calls on a one-element sequence with a finite, non-zero element have
\* finished
C5_Witness ==
  /\ Len(v) = 1 /\ IsFinite(v[1]) /\ v[1].m # 0
  /\ Done(own) /\ Done(ref) /\ own.ret = v[1]

\* the special-value table of ln_add_exp; two finite operands are not in it
InTable(a, b, out) ==
  IF is_nan(a) \/ is_nan(b) THEN is_nan(out)
  ELSE IF a = INFINITY \/ b = INFINITY THEN out = INFINITY
  ELSE IF a = NEG_INFINITY /\ b = NEG_INFINITY THEN out = NEG_INFINITY
  ELSE IF a = NEG_INFINITY THEN out = b
  ELSE IF b = NEG_INFINITY THEN out = a
  ELSE IsFinite(out)

\* C6: a call of ln_add_exp returns NaN if an operand is NaN; otherwise
\* +infinity if an operand is +infinity; otherwise -infinity if both are
\* -infinity; otherwise the other operand if exactly one is -infinity.
C6_SpecialValueTable ==
  /\ add.ab.called => InTable(add.a, add.b, add.ab.out)
  /\ add.ba.called => InTable(add.b, add.a, add.ba.out)

\* the calls on (+infinity, +infinity) have returned
C6_Witness ==
  /\ add.ab.called /\ add.ba.called
  /\ add.a = INFINITY /\ add.b = INFINITY /\ add.ab.out = INFINITY

\* C7 as stated: in both argument orders ln_add_exp selects the same
\* (max, diff) pair and returns the same result, NaN when an operand is NaN.
C7_AsStated ==
  add.ab.called /\ add.ba.called =>
    /\ SameF(add.ab.max, add.ba.max) /\ SameF(add.ab.diff, add.ba.diff)
    /\ SameF(add.ab.out, add.ba.out)
    /\ (is_nan(add.a) \/ is_nan(add.b)) => is_nan(add.ab.out) /\ is_nan(add.ba.out)

\* C7, amended: in both argument orders ln_add_exp returns the same result,
\* NaN when an operand is NaN; when neither operand is NaN both orders
\* select the same (max, diff) pair.
C7_Symmetric ==
  add.ab.called /\ add.ba.called =>
    /\ SameF(add.ab.out, add.ba.out)
    /\ (is_nan(add.a) \/ is_nan(add.b)) => is_nan(add.ab.out) /\ is_nan(add.ba.out)
    /\ (~is_nan(add.a) /\ ~is_nan(add.b)) =>
         add.ab.max = add.ba.max /\ add.ab.diff = add.ba.diff

\* both calls on two different finite operands have returned
C7_Witness ==
  /\ add.ab.called /\ add.ba.called
  /\ IsFinite(add.a) /\ IsFinite(add.b) /\ FLt(add.a, add.b)
  /\ IsFinite(add.ab.out) /\ add.ab.max = add.b

\* the values behind the references a call has pulled
Pointees(s) == [i \in 1..Len(s.pulled) |-> Deref(v, s.pulled[i])]

Min(x, y) == IF x < y THEN x ELSE y

\* the return of the call on references that matches a return of the call on
\* owned values
RefLine(l) ==
  IF l = 123 THEN 155 ELSE IF l = 126 THEN 158 ELSE IF l = 129 THEN 160
  ELSE IF l = 137 THEN 167 ELSE 0

\* C8: on the same vector the call on owned values and the call on
\* references go through the same (m_old, sum) pairs call of next() after call
\* of next(), pull the same values, and, once finished, have made the same
\* number of calls of next() and returned the same result from the matching
\* return.
C8_OwnedAndRefAgree ==
  /\ \A i \in 1..Min(Len(own.hist), Len(ref.hist)) : own.hist[i] = ref.hist[i]
  /\ \A i \in 1..Min(Len(own.pulled), Len(ref.pulled)) :
       own.pulled[i] = Pointees(ref)[i]
  /\ Len(own.hist) <= Len(ref.hist) \/ ~Done(ref)
  /\ Done(own) /\ Done(ref) =>
       /\ own.ret = ref.ret
       /\ own.calls = ref.calls /\ Len(own.pulled) = Len(ref.pulled)
       /\ own.m_old = ref.m_old /\ own.sum = ref.sum
       /\ ref.line = RefLine(own.line)

\* both calls have finished with a finite result on at least three elements,
\* two of them finite and different
C8_Witness ==
  /\ Done(own) /\ Done(ref) /\ IsFinite(own.ret) /\ Len(own.pulled) >= 3
  /\ \E i, j \in 1..Len(v) : IsFinite(v[i]) /\ IsFinite(v[j]) /\ v[i].m < v[j].m

\* the position of the first NaN of a sequence that holds one
FirstNaN(vec) ==
  CHOOSE i \in 1..Len(vec) : is_nan(vec[i]) /\ \A j \in 1..(i - 1) : ~is_nan(vec[j])

C9_Order ==
  \* strictly in order, each element at most once
  /\ own.pulled \o own.iter = into_iter(v)
  /\ ref.pulled \o ref.iter = iter(v)
  \* with a NaN: the last element pulled is the first NaN
  /\ Done(own) /\ HasNaN(v) =>
       Len(own.pulled) = FirstNaN(v) /\ own.line \in {123, 129}
  /\ Done(ref) /\ HasNaN(v) =>
       Len(ref.pulled) = FirstNaN(v) /\ ref.line \in {155, 160}
  \* without NaN: every element is pulled
  /\ Done(own) /\ ~HasNaN(v) => own.pulled = v /\ own.line \in {126, 137}
  /\ Done(ref) /\ ~HasNaN(v) => Pointees(ref) = v /\ ref.line \in {158, 167}
  \* the scan for NaN is entered at the first +infinity, and only there
  /\ own.pc = "scan" => HasInf(own.pulled) /\ ~HasNaN(own.pulled)
  /\ (Done(own) /\ HasInf(own.pulled)) => own.line \in {123, 126}
  /\ ref.pc = "scan" => HasInf(Pointees(ref)) /\ ~HasNaN(Pointees(ref))
  /\ (Done(ref) /\ HasInf(Pointees(ref))) => ref.line \in {155, 158}

\* what a call has left to do: the elements not pulled, and its return
Remaining(s) == Len(s.iter) + (IF Done(s) THEN 0 ELSE 1)

\* a call that has not returned is in one of its two loops; the code takes
\* its next step without waiting (this is ENABLED Next, written out)
C9_NotStuck ==
  \/ Done(own) /\ Done(ref)
  \/ ref.pc \in {"acc", "scan"}
  \/ Done(ref) /\ own.pc \in {"acc", "scan"}

C9_Step ==
  \* a step pulls at most one element
  /\ Len(own'.pulled) <= Len(own.pulled) + 1
  /\ Len(ref'.pulled) <= Len(ref.pulled) + 1
  \* after the first +infinity m_old and sum no longer change
  /\ own.pc = "scan" => own'.m_old = own.m_old /\ own'.sum = own.sum
  /\ ref.pc = "scan" => ref'.m_old = ref.m_old /\ ref'.sum = ref.sum
  \* a finished call stays as it is
  /\ Done(own) => own' = own
  /\ Done(ref) => ref' = ref
  \* every step brings the calls nearer to their return
  /\ Remaining(own') + Remaining(ref') < Remaining(own) + Remaining(ref)

\* C9: ln_sum_exp pulls the elements in order, each at most once, and
\* terminates: a call that has not returned can always take a step, every
\* step lessens what remains to do, and a call makes at most Len(v) + 1
\* calls of next(); with a NaN in the sequence the last element pulled is
\* the first NaN, met in the accumulation loop or in the scan after a
\* +infinity; without one every element is pulled exactly once; from the
\* first +infinity on m_old and sum no longer change.
C9_PullOrderAndTermination ==
  /\ [](C9_Order /\ C9_NotStuck)
  /\ [](own.calls <= Len(v) + 1 /\ ref.calls <= Len(v) + 1)
  /\ [][C9_Step]_vars

\* a call that found NaN while scanning after +infinity and left an element
\* of the sequence unpulled
C9_Witness ==
  /\ Done(own) /\ Done(ref) /\ own.line = 123 /\ ref.line = 155
  /\ Len(own.pulled) < Len(v) /\ Len(own.pulled) >= 2

\* the finite values among the first n elements of a sequence
FiniteIn(vec, n) == {j \in 1..n : IsFinite(vec[j])}

MaxOf(S) == CHOOSE x \in S : \A y \in S : y <= x

\* the accumulators after the values in vals, of which the finite ones were
\* accumulated
Accumulated(s, vals) ==
  LET F == FiniteIn(vals, Len(vals))
      n == Cardinality(F)
  IN IF F = {}
     THEN s.m_old = NEG_INFINITY /\ s.sum = LZero
     ELSE /\ s.m_old = Fin(MaxOf({vals[j].m : j \in F}))
          /\ s.sum.k = "fin"
          \* sum is the sum of exp(v_j - m_old) over the finite v_j
          /\ \A e \in Exps :
               s.sum.p[e] = Cardinality({j \in F : vals[j].m - s.m_old.m = e})
          \* every term is at most 1: sum <= n
          /\ \A e \in Exps : e > 0 => s.sum.p[e] = 0
          /\ PTotal(s.sum.p) = n
          \* the term of the maximum is 1: sum >= 1
          /\ s.sum.p[0] >= 1

\* C10: in the accumulation loop, and at the final expression, m_old is the
\* maximum of the finite elements processed (-infinity if none) and sum is
\* the sum of exp(v_j - m_old) over them (0 if none), in exact arithmetic; so
\* sum is at most their number, and at least 1 once there is one.
C10_RunningMaxAndSum ==
  /\ (own.pc = "acc" \/ own.line = 137) => Accumulated(own, own.pulled)
  /\ (ref.pc = "acc" \/ ref.line = 167) => Accumulated(ref, Pointees(ref))

\* the accumulation loop after three finite elements, the largest in the
\* middle, so that sum was rescaled once and is a sum of three terms
C10_Witness ==
  /\ own.pc = "acc" /\ Len(own.pulled) >= 3
  /\ \E i \in 1..(Len(own.pulled) - 2) :
       /\ IsFinite(own.pulled[i]) /\ IsFinite(own.pulled[i + 1])
       /\ IsFinite(own.pulled[i + 2])
       /\ own.pulled[i].m < own.pulled[i + 1].m
       /\ own.pulled[i + 2].m < own.pulled[i + 1].m
  /\ PTotal(own.sum.p) >= 3 /\ own.sum.p[0] = 1

\* what the final expression returns, as C11 states it
Finalized(s) ==
  s.ret = (IF s.m_old = INFINITY THEN INFINITY ELSE FAdd(s.m_old, Ln(s.sum)))

\* C11: the final expression (line 137, line 167 for references) is reached
\* exactly when the sequence holds neither NaN nor +infinity; there the call
\* returns +infinity if m_old is +infinity and m_old + ln(sum) otherwise.
\* m_old is never +infinity there, so the result is always m_old + ln(sum).
C11_Finalization ==
  /\ Done(own) => (own.line = 137 <=> ~HasNaN(v) /\ ~HasInf(v))
  /\ Done(ref) => (ref.line = 167 <=> ~HasNaN(v) /\ ~HasInf(v))
  /\ own.line = 137 =>
       /\ Finalized(own) /\ own.iter = <<>>
       /\ own.m_old # INFINITY /\ own.ret = FAdd(own.m_old, Ln(own.sum))
  /\ ref.line = 167 =>
       /\ Finalized(ref) /\ ref.iter = <<>>
       /\ ref.m_old # INFINITY /\ ref.ret = FAdd(ref.m_old, Ln(ref.sum))

\* both calls have returned from the final expression after two different
\* finite elements, with a result that is not an element of the sequence
C11_Witness ==
  /\ own.line = 137 /\ ref.line = 167 /\ IsFinite(own.ret)
  /\ \E i, j \in 1..Len(v) : IsFinite(v[i]) /\ IsFinite(v[j]) /\ v[i].m < v[j].m
  /\ own.ret.p # OneP

====
